---- MODULE Spec2Model ----
(***************************************************************************)
(* Model of gostd's mime/multipart Writer (src/gostd/src/mime/multipart/   *)
(* mod.rs).  Byte strings are sequences of byte values; every literal of   *)
(* the source is spelled out byte by byte with the text in a comment.      *)
(***************************************************************************)
EXTENDS Integers, Sequences, FiniteSets, TLC

VARIABLES w, boundary, lastpart, handle, trace, fin, fout

vars == <<w, boundary, lastpart, handle, trace, fin, fout>>

\* ---------------------------------------------------------------- bounds

\* Number of calls the caller makes on one writer.
MaxCalls == 3

\* Longest boundary handed to FormDataContentType on its own.
MaxBoundaryLen == 2

\* Longest string handed to escapeQuotes on its own.
MaxNameLen == 4

\* ------------------------------------------------------- source literals

CRLF == <<13, 10>>                      \* "\r\n"
DashDash == <<45, 45>>                  \* "--"
ColonSpace == <<58, 32>>                \* ": "
\* "Content-Disposition"
ContentDisposition == <<67, 111, 110, 116, 101, 110, 116, 45, 68, 105, 115, 112, 111, 115, 105, 116, 105, 111, 110>>
\* "Content-Type"
ContentType == <<67, 111, 110, 116, 101, 110, 116, 45, 84, 121, 112, 101>>
\* "application/octet-stream"
OctetStream == <<97, 112, 112, 108, 105, 99, 97, 116, 105, 111, 110, 47, 111, 99, 116, 101, 116, 45, 115, 116, 114, 101, 97, 109>>
\* form-data; name="
FormDataName == <<102, 111, 114, 109, 45, 100, 97, 116, 97, 59, 32, 110, 97, 109, 101, 61, 34>>
\* "; filename="
FilenameSep == <<34, 59, 32, 102, 105, 108, 101, 110, 97, 109, 101, 61, 34>>
DQuote == <<34>>                        \* one double quote
Backslash == <<92>>                     \* one backslash
\* "multipart/form-data; boundary="
ContentTypePrefix == <<109, 117, 108, 116, 105, 112, 97, 114, 116, 47, 102, 111, 114, 109, 45, 100, 97, 116, 97, 59, 32, 98, 111, 117, 110, 100, 97, 114, 121, 61>>
\* ()<>@,;:"/[]?=
QuoteChars == <<40, 41, 60, 62, 64, 44, 59, 58, 34, 47, 91, 93, 63, 61>>
Suffix == <<120, 120>>                  \* "xx"
\* "0123456789abcdef"
HexDigits == <<48, 49, 50, 51, 52, 53, 54, 55, 56, 57, 97, 98, 99, 100, 101, 102>>

\* ------------------------------------------------------ sequence helpers

Range(s) == {s[i] : i \in DOMAIN s}

RECURSIVE Concat(_)
Concat(ss) == IF ss = <<>> THEN <<>> ELSE Head(ss) \o Concat(Tail(ss))

\* Byte-wise lexicographic order of Rust's String (Ord for str).
RECURSIVE LexLess(_, _)
LexLess(a, b) ==
    IF b = <<>> THEN FALSE
    ELSE IF a = <<>> THEN TRUE
    ELSE IF Head(a) # Head(b) THEN Head(a) < Head(b)
    ELSE LexLess(Tail(a), Tail(b))

\* All byte strings over alphabet a of length at most n.
Strings(a, n) == UNION {[1..k -> a] : k \in 0..n}

\* ------------------------------------------------------- randomBoundary

\* rand::thread_rng().fill_bytes(&mut bytes): the 30-byte block drawn for
\* the writer under test. Each word has one non-zero byte, its least
\* significant one, so the boundary has two digits a word.
RandomBlocks == { [i \in 1..30 |-> IF i % 4 = 1 THEN (i * 37 + 11) % 256 ELSE 0] }

\* The byte order of the target the writer under test runs on: TRUE is
\* little-endian (x86-64, aarch64).
ByteOrders == {TRUE}

\* as_u32: the u32 of four bytes in native byte order (le: little-endian
\* target), kept as its eight hexadecimal digits, most significant first.
as_u32(slice, le) ==
    LET m == IF le THEN <<slice[4], slice[3], slice[2], slice[1]>> ELSE slice
    IN  <<m[1] \div 16, m[1] % 16, m[2] \div 16, m[2] % 16,
          m[3] \div 16, m[3] % 16, m[4] \div 16, m[4] % 16>>

\* Mutant: the digits are rendered as {:X} renders them, in upper case.
RECURSIVE UpperHex(_)
UpperHex(u) ==
    IF Len(u) > 1 /\ Head(u) = 0 THEN UpperHex(Tail(u))
    ELSE [i \in 1..Len(u) |-> IF u[i] < 10 THEN 48 + u[i] ELSE 55 + u[i]]

\* format!("{:x}", u): lowercase hexadecimal without leading zeros.
RECURSIVE LowerHex(_)
LowerHex(u) ==
    IF Len(u) > 1 /\ Head(u) = 0 THEN LowerHex(Tail(u))
    ELSE [i \in 1..Len(u) |-> HexDigits[u[i] + 1]]

randomBoundary(bytes, le) ==
    LET a == as_u32(SubSeq(bytes, 1, 4), le)
        b == as_u32(SubSeq(bytes, 5, 8), le)
        c == as_u32(SubSeq(bytes, 9, 12), le)
        d == as_u32(SubSeq(bytes, 13, 16), le)
        e == as_u32(SubSeq(bytes, 17, 20), le)
        f == as_u32(SubSeq(bytes, 21, 24), le)
        g == as_u32(SubSeq(bytes, 25, 28), le)
    IN  LowerHex(a) \o LowerHex(b) \o LowerHex(c) \o LowerHex(d)
          \o LowerHex(e) \o LowerHex(f) \o LowerHex(g) \o Suffix

\* -------------------------------------------------- FormDataContentType

\* strings::ContainsAny(s, chars)
ContainsAny(s, chars) == \E i \in DOMAIN s : \E j \in DOMAIN chars : s[i] = chars[j]

\* Mutant: the boundary is never quoted.
FormDataContentTypeBare(bnd) == ContentTypePrefix \o bnd

FormDataContentType(bnd) ==
    LET b == IF ContainsAny(bnd, QuoteChars)
             THEN DQuote \o bnd \o DQuote
             ELSE bnd
    IN  ContentTypePrefix \o b

\* ---------------------------------------------------------- escapeQuotes

IsPrefix(p, s) == Len(p) <= Len(s) /\ SubSeq(s, 1, Len(p)) = p

\* strings::Replacer::Replace: scan s left to right; at each position the
\* first pair whose old string starts there is replaced by its new string.
RECURSIVE Replace(_, _)
Replace(p, s) ==
    IF s = <<>> THEN <<>>
    ELSE LET hits == {i \in DOMAIN p : p[i][1] # <<>> /\ IsPrefix(p[i][1], s)}
         IN  IF hits = {} THEN <<Head(s)>> \o Replace(p, Tail(s))
             ELSE LET i == CHOOSE i \in hits : \A j \in hits : i <= j
                  IN  p[i][2] \o Replace(p, SubSeq(s, Len(p[i][1]) + 1, Len(s)))

\* Mutant: the name is copied as it is.
escapeQuotesNone(s) == s

\* vec![("\\", "\\\\"), (r#"""#, r#"\\\""#)]: the second new string is a raw
\* string of four bytes, three backslashes and the double quote.
escapePairs ==
    << <<Backslash, <<92, 92>>>>,
       <<DQuote, <<92, 92, 92, 34>>>> >>

escapeQuotes(s) == Replace(escapePairs, s)

\* ------------------------------------------------------------ CreatePart

\* Mutant: the closed flag is never consulted.
IsClosedNever(lp) == FALSE

\* The test of the closed flag at the head of CreatePart and of Close.
IsClosed(lp) == lp

\* Mutant: the leading CRLF is left out as long as the writer is open.
DelimiterInverted(lp, bnd) ==
    IF lp THEN CRLF \o DashDash \o bnd \o CRLF
    ELSE DashDash \o bnd \o CRLF

\* The delimiter CreatePart puts in front of the header block.
Delimiter(lp, bnd) ==
    IF ~lp THEN CRLF \o DashDash \o bnd \o CRLF
    ELSE DashDash \o bnd \o CRLF

\* header.keys(): every order in which the HashMap may yield its keys.
KeyOrders(h) ==
    {o \in [1..Cardinality(DOMAIN h) -> DOMAIN h] :
        \A i, j \in DOMAIN o : i # j => o[i] # o[j]}

\* Mutant: the keys stay in the order the map yielded them.
SortKeysSkipped(keys) == keys

\* keys.sort()
RECURSIVE Insert(_, _)
Insert(k, sorted) ==
    IF sorted = <<>> THEN <<k>>
    ELSE IF LexLess(k, Head(sorted)) THEN <<k>> \o sorted
    ELSE <<Head(sorted)>> \o Insert(k, Tail(sorted))

RECURSIVE SortKeys(_)
SortKeys(keys) ==
    IF keys = <<>> THEN <<>>
    ELSE Insert(keys[Len(keys)], SortKeys(SubSeq(keys, 1, Len(keys) - 1)))

\* Mutant: the values of a key are emitted last to first.
KeyLinesReversed(k, vals) ==
    Concat([i \in 1..Len(vals) |-> k \o ColonSpace \o vals[Len(vals) + 1 - i] \o CRLF])

\* for v in header.get(&k): one line "k: v\r\n" per stored value.
KeyLines(k, vals) ==
    Concat([i \in 1..Len(vals) |-> k \o ColonSpace \o vals[i] \o CRLF])

\* for k in keys { ... }
HeaderLines(h, keys) ==
    Concat([i \in 1..Len(keys) |-> KeyLines(keys[i], h[keys[i]])])

\* Mutant: the block goes to the sink without the blank line.
PartBlockNoBlankLine(lp, bnd, h, order) ==
    Delimiter(lp, bnd) \o HeaderLines(h, SortKeys(order))

\* The buffer b of CreatePart when it is handed to the sink.
PartBlock(lp, bnd, h, order) ==
    Delimiter(lp, bnd) \o HeaderLines(h, SortKeys(order)) \o CRLF

\* What CreatePart returns once the block was handed to the sink: the
\* result of self.w.Write is dropped.
CreatePartRet(ok) == "ok"

\* ---------------------------------------------------- convenience headers

FormFileHeader(fieldname, filename) ==
    (ContentDisposition :>
        << FormDataName \o escapeQuotes(fieldname) \o FilenameSep
             \o escapeQuotes(filename) \o DQuote >>)
    @@ (ContentType :> << OctetStream >>)

FormFieldHeader(fieldname) ==
    (ContentDisposition :> << FormDataName \o escapeQuotes(fieldname) \o DQuote >>)

\* Mutant: the value is written as a line of its own.
BodyBytesLine(value) == value \o CRLF

\* value.as_bytes().to_vec(), the block WriteField writes through the handle.
BodyBytes(value) == value

\* WriteField's match on the result of the body write.
WriteFieldRet(ok) == IF ok THEN "ok" ELSE "err"

\* ----------------------------------------------------------------- Close

\* Mutant: the writer is closed only when the terminal delimiter was written.
CloseLastpartOnSuccess(ok) == ok

\* Mutant: Close leaves the flag as it was.
CloseLastpartNever(ok) == FALSE

\* self.lastpart = true, before the terminal delimiter is written.
CloseLastpart(ok) == TRUE

\* Mutant: the terminal delimiter is built from the suffix alone.
TerminalOfSuffix(bnd) == CRLF \o DashDash \o Suffix \o DashDash \o CRLF

\* format!("\r\n--{}--\r\n", self.boundary)
Terminal(bnd) == CRLF \o DashDash \o bnd \o DashDash \o CRLF

CloseRet(ok) == IF ok THEN "ok" ELSE "err"

\* ------------------------------------------------------------------ sink

\* io::Writer::Write on the borrowed sink: a successful write appends the
\* whole block; a failed one leaves the first keep bytes of it.
SinkWrite(sink, block, ok, keep) ==
    IF ok THEN sink \o block ELSE sink \o SubSeq(block, 1, keep)

\* What a failed write leaves behind: a block cut in the middle.
Truncations(block) == {Len(block) \div 2}

\* The outcomes of one write: <<ok, keep>>.
Outcomes(block) == {<<TRUE, 0>>} \cup {<<FALSE, k>> : k \in Truncations(block)}

\* ---------------------------------------------------------------- inputs

\* Header maps handed to CreatePart: empty; two keys stored against their
\* sorted order, one of them with two values; a key that is a prefix of
\* another key, the longer one with no value.
HeaderMaps ==
    { <<>>,
      (<<66>> :> << <<49>> >>) @@ (<<65>> :> << <<50>>, <<51>> >>),
      (<<65, 66>> :> << >>) @@ (<<65>> :> << <<49>> >>) }

\* The field name of CreateFormField: n" (with a double quote); WriteField
\* passes the plain names of FieldArgs through the same code.
FieldNames == { <<110, 34>> }

\* (fieldname, filename) of CreateFormFile: (n", \), a double quote in the
\* one and a backslash in the other.
FormFileArgs == { << <<110, 34>>, <<92>> >> }

\* (fieldname, value) of WriteField: (a, 1) and (b, 2).
FieldArgs == { << <<97>>, <<49>> >>, << <<98>>, <<50>> >> }

\* Bodies written through a part's handle: "1" and a body that holds a
\* whole delimiter line of the writer, "\r\n--<boundary>\r\n".
Bodies == { <<49>>, CRLF \o DashDash \o boundary \o CRLF }

\* ----------------------------------------------------------------- state

\* One entry of trace: the call, its arguments, what it returned, the
\* blocks it handed to the sink with the outcome of each write, the
\* length of the sink before and after it, and the string it returned (out,
\* empty for the calls that return none).
Entry(op, args, h, ret, blocks, oks, sink) ==
    [op |-> op, args |-> args, hdr |-> h, ret |-> ret,
     blocks |-> blocks, oks |-> oks, at |-> Len(w), end |-> Len(sink),
     out |-> <<>>]

\* The entry of a call that takes &self, writes nothing and returns s.
Returning(op, s) ==
    [Entry(op, <<>>, <<>>, "ok", <<>>, <<>>, w) EXCEPT !.out = s]

\* Writer::Boundary: &self.boundary
BoundaryOf(bnd) == bnd

\* Writer::new
Init ==
    /\ w = <<>>
    /\ boundary \in {randomBoundary(b, le) : b \in RandomBlocks, le \in ByteOrders}
    /\ lastpart = FALSE
    /\ handle = FALSE
    /\ trace = <<>>
    /\ fin = <<>>
    /\ fout = <<>>

\* The body of CreatePart, entered as op with arguments args and header h.
DoCreatePart(op, args, h) ==
    /\ Len(trace) < MaxCalls
    /\ IF IsClosed(lastpart)
       THEN /\ w' = w
            /\ handle' = FALSE
            /\ trace' = Append(trace, Entry(op, args, h, "closed", <<>>, <<>>, w))
       ELSE \E order \in KeyOrders(h) :
              LET b == PartBlock(lastpart, boundary, h, order) IN
              \E o \in Outcomes(b) :
                LET sink == SinkWrite(w, b, o[1], o[2]) IN
                /\ w' = sink
                /\ handle' = TRUE
                /\ trace' = Append(trace,
                       Entry(op, args, h, CreatePartRet(o[1]), <<b>>, <<o[1]>>, sink))
    /\ UNCHANGED <<boundary, lastpart, fin, fout>>

CreatePart == \E h \in HeaderMaps : DoCreatePart("CreatePart", <<>>, h)

CreateFormFile ==
    \E a \in FormFileArgs :
        DoCreatePart("CreateFormFile", a, FormFileHeader(a[1], a[2]))

CreateFormField ==
    \E f \in FieldNames :
        DoCreatePart("CreateFormField", <<f>>, FormFieldHeader(f))

WriteField ==
    \E a \in FieldArgs :
      LET h == FormFieldHeader(a[1]) IN
      /\ Len(trace) < MaxCalls
      /\ IF IsClosed(lastpart)
         THEN /\ w' = w
              /\ trace' = Append(trace,
                     Entry("WriteField", a, h, "closed", <<>>, <<>>, w))
         ELSE \E order \in KeyOrders(h) :
                LET b == PartBlock(lastpart, boundary, h, order) IN
                \E o \in Outcomes(b), v \in Outcomes(BodyBytes(a[2])) :
                  LET sink == SinkWrite(SinkWrite(w, b, o[1], o[2]),
                                        BodyBytes(a[2]), v[1], v[2]) IN
                  /\ w' = sink
                  /\ trace' = Append(trace,
                         Entry("WriteField", a, h,
                               IF CreatePartRet(o[1]) = "ok" THEN WriteFieldRet(v[1])
                               ELSE CreatePartRet(o[1]),
                               <<b, BodyBytes(a[2])>>, <<o[1], v[1]>>, sink))
      /\ handle' = FALSE
      /\ UNCHANGED <<boundary, lastpart, fin, fout>>

\* A write of body bytes through the handle the last CreatePart returned.
Write ==
    /\ Len(trace) < MaxCalls
    /\ handle
    /\ \E body \in Bodies : \E o \in Outcomes(body) :
         LET sink == SinkWrite(w, body, o[1], o[2]) IN
         /\ w' = sink
         /\ trace' = Append(trace,
                Entry("Write", <<body>>, <<>>, IF o[1] THEN "ok" ELSE "err",
                      <<body>>, <<o[1]>>, sink))
    /\ UNCHANGED <<boundary, lastpart, handle, fin, fout>>

Close ==
    /\ Len(trace) < MaxCalls
    /\ IF IsClosed(lastpart)
       THEN /\ UNCHANGED <<w, lastpart>>
            /\ trace' = Append(trace, Entry("Close", <<>>, <<>>, "closed", <<>>, <<>>, w))
       ELSE LET b == Terminal(boundary) IN
            \E o \in Outcomes(b) :
              LET sink == SinkWrite(w, b, o[1], o[2]) IN
              /\ lastpart' = CloseLastpart(o[1])
              /\ w' = sink
              /\ trace' = Append(trace,
                     Entry("Close", <<>>, <<>>, CloseRet(o[1]), <<b>>, <<o[1]>>, sink))
    /\ handle' = FALSE
    /\ UNCHANGED <<boundary, fin, fout>>

\* Boundary() on the writer, open or closed; the borrow of a part's handle
\* ends with the call.
Boundary ==
    /\ Len(trace) < MaxCalls
    /\ trace' = Append(trace, Returning("Boundary", BoundaryOf(boundary)))
    /\ handle' = FALSE
    /\ UNCHANGED <<w, boundary, lastpart, fin, fout>>

\* FormDataContentType() on the writer, open or closed.
ContentTypeOfWriter ==
    /\ Len(trace) < MaxCalls
    /\ trace' = Append(trace,
           Returning("FormDataContentType", FormDataContentType(boundary)))
    /\ handle' = FALSE
    /\ UNCHANGED <<w, boundary, lastpart, fin, fout>>

Next ==
    \/ CreatePart
    \/ CreateFormFile
    \/ CreateFormField
    \/ WriteField
    \/ Write
    \/ Close
    \/ Boundary
    \/ ContentTypeOfWriter

Spec == Init /\ [][Next]_vars

\* ------------------------------------- FormDataContentType on its own

\* Boundaries over the fourteen characters that force quoting, a letter
\* and a space.
ContentTypeInputs == Strings(Range(QuoteChars) \cup {97, 32}, MaxBoundaryLen)

InitContentType ==
    /\ w = <<>>
    /\ boundary \in ContentTypeInputs
    /\ lastpart = FALSE
    /\ handle = FALSE
    /\ trace = <<>>
    /\ fin = <<>>
    /\ fout = <<>>

CallFormDataContentType ==
    /\ fout = <<>>
    /\ fout' = <<FormDataContentType(boundary)>>
    /\ UNCHANGED <<w, boundary, lastpart, handle, trace, fin>>

NextContentType == CallFormDataContentType

SpecContentType == InitContentType /\ [][NextContentType]_vars

\* -------------------------------------------- escapeQuotes on its own

\* Strings over a, the double quote and the backslash, and na"me.
EscapeInputs == Strings({97, 34, 92}, MaxNameLen) \cup { <<110, 97, 34, 109, 101>> }

InitEscape ==
    /\ w = <<>>
    /\ boundary \in {randomBoundary(b, le) : b \in RandomBlocks, le \in ByteOrders}
    /\ lastpart = FALSE
    /\ handle = FALSE
    /\ trace = <<>>
    /\ fin \in {<<s>> : s \in EscapeInputs}
    /\ fout = <<>>

CallEscapeQuotes ==
    /\ fout = <<>>
    /\ fout' = <<escapeQuotes(fin[1])>>
    /\ UNCHANGED <<w, boundary, lastpart, handle, trace, fin>>

\* escapeQuotes applied to its own result.
CallEscapeQuotesAgain ==
    /\ Len(fout) = 1
    /\ fout' = <<fout[1], escapeQuotes(fout[1])>>
    /\ UNCHANGED <<w, boundary, lastpart, handle, trace, fin>>

NextEscape == CallEscapeQuotes \/ CallEscapeQuotesAgain

SpecEscape == InitEscape /\ [][NextEscape]_vars

\* ------------------------------------------- randomBoundary on its own

\* Four-byte words fill_bytes may deliver: all zero, all ones, and one
\* whose leading digits are zero in either byte order.
RandomWords == { <<0, 0, 0, 0>>, <<255, 255, 255, 255>>, <<0, 171, 9, 0>> }

\* The 30 bytes of the buffer: seven words that are read and two bytes
\* that are not.
BoundaryBlocks == { Concat(ws) \o <<7, 7>> : ws \in [1..7 -> RandomWords] }

\* Before Writer::new: the random bytes and the target's byte order are
\* drawn, no boundary exists yet.
InitBoundary ==
    /\ w = <<>>
    /\ boundary = <<>>
    /\ lastpart = FALSE
    /\ handle = FALSE
    /\ trace = <<>>
    /\ fin \in {<<b, le>> : b \in BoundaryBlocks, le \in BOOLEAN}
    /\ fout = <<>>

\* Writer::new: boundary: randomBoundary().
New ==
    /\ boundary = <<>>
    /\ boundary' = randomBoundary(fin[1], fin[2])
    /\ UNCHANGED <<w, lastpart, handle, trace, fin, fout>>

\* FormDataContentType of the writer Writer::new built.
ContentTypeOfNew ==
    /\ boundary # <<>>
    /\ fout = <<>>
    /\ fout' = <<FormDataContentType(boundary)>>
    /\ UNCHANGED <<w, boundary, lastpart, handle, trace, fin>>

NextBoundary == New \/ ContentTypeOfNew

SpecBoundary == InitBoundary /\ [][NextBoundary]_vars

\* ============================================================== claims

PartOps == {"CreatePart", "CreateFormFile", "CreateFormField", "WriteField"}

\* The bytes the sink gained during the call recorded in entry e.
Appended(e) == SubSeq(w, e.at + 1, e.end)

AllTrue(oks) == \A i \in DOMAIN oks : oks[i]

\* C1: once a Close has returned success, every later CreatePart,
\* CreateFormField, CreateFormFile, WriteField or Close returns the closed
\* error, hands no block to the sink and leaves the sink as it was.
ClosedRejectsAll ==
    \A i, j \in DOMAIN trace :
        (/\ i < j
         /\ trace[i].op = "Close"
         /\ trace[i].ret = "ok"
         /\ trace[j].op \in PartOps \cup {"Close"})
        => /\ trace[j].ret = "closed"
           /\ trace[j].blocks = <<>>
           /\ trace[j].end = trace[j].at

\* A successful Close followed by a part call and by a second Close.
ClosedRejectsAllWitness ==
    /\ Len(trace) = 3
    /\ trace[1].op = "Close" /\ trace[1].ret = "ok"
    /\ trace[2].op \in PartOps /\ trace[2].ret = "closed"
    /\ trace[3].op = "Close" /\ trace[3].ret = "closed"
    /\ w = CRLF \o DashDash \o boundary \o DashDash \o CRLF

\* C2: the first part call of a writer hands the sink a block that starts
\* with "--<boundary>\r\n", every later one a block that starts with
\* "\r\n--<boundary>\r\n".
DelimiterByPosition ==
    \A i \in DOMAIN trace :
        (trace[i].op \in PartOps /\ trace[i].ret # "closed")
        => LET first == \A k \in 1..(i - 1) : trace[k].op \notin PartOps
           IN  IF first
               THEN IsPrefix(DashDash \o boundary \o CRLF, trace[i].blocks[1])
               ELSE IsPrefix(CRLF \o DashDash \o boundary \o CRLF, trace[i].blocks[1])

\* C3: n >= 1 successful WriteField calls followed by a successful Close,
\* with no failed write, leave in the sink "--B\r\n" part_1 "\r\n--B\r\n"
\* part_2 ... part_n "\r\n--B--\r\n".
FieldPart(a) ==
    ContentDisposition \o ColonSpace \o FormDataName \o a[1] \o DQuote
        \o CRLF \o CRLF \o a[2]

FormOf(n) ==
    DashDash \o boundary \o CRLF \o FieldPart(trace[1].args)
        \o Concat([i \in 1..(n - 1) |->
               CRLF \o DashDash \o boundary \o CRLF \o FieldPart(trace[i + 1].args)])
        \o CRLF \o DashDash \o boundary \o DashDash \o CRLF

FieldsThenClose ==
    LET n == Len(trace) - 1 IN
    (/\ n >= 1
     /\ \A i \in 1..n : /\ trace[i].op = "WriteField"
                        /\ trace[i].ret = "ok"
                        /\ AllTrue(trace[i].oks)
     /\ trace[n + 1].op = "Close"
     /\ trace[n + 1].ret = "ok")
    => w = FormOf(n)

\* C5: the first Close of a writer hands the sink exactly the terminal
\* delimiter "\r\n--<boundary>--\r\n", returns the outcome of that write and
\* leaves the writer closed whether the write failed or not; every later
\* Close returns the closed error and hands the sink nothing.
CloseOnce ==
    \A i \in DOMAIN trace :
        trace[i].op = "Close"
        => IF \A k \in 1..(i - 1) : trace[k].op # "Close"
           THEN /\ trace[i].blocks = << CRLF \o DashDash \o boundary \o DashDash \o CRLF >>
                /\ trace[i].ret = IF trace[i].oks[1] THEN "ok" ELSE "err"
                /\ trace[i].oks[1] => Appended(trace[i]) = trace[i].blocks[1]
                /\ lastpart
           ELSE /\ trace[i].ret = "closed"
                /\ trace[i].blocks = <<>>
                /\ trace[i].end = trace[i].at

\* A part, a Close whose write failed, and a second Close.
CloseOnceWitness ==
    /\ Len(trace) = 3
    /\ trace[1].op \in PartOps
    /\ trace[2].op = "Close" /\ trace[2].ret = "err"
    /\ trace[3].op = "Close" /\ trace[3].ret = "closed"
    /\ lastpart

\* The lines of a block, each without the "\r\n" that ends it.
SplitLines(s) ==
    LET ends == {i \in 1..(Len(s) - 1) : s[i] = 13 /\ s[i + 1] = 10}
        n == Cardinality(ends)
        end == [k \in 1..n |-> CHOOSE i \in ends : Cardinality({j \in ends : j < i}) = k - 1]
        from(k) == IF k = 1 THEN 1 ELSE end[k - 1] + 2
        rest == IF n = 0 THEN s ELSE SubSeq(s, end[n] + 2, Len(s))
    IN  [k \in 1..n |-> SubSeq(s, from(k), end[k] - 1)]
          \o (IF rest = <<>> THEN <<>> ELSE <<rest>>)

\* The header lines of a part's block: the lines between the delimiter
\* line and the blank line that ends the block.
HeaderLinesOf(block) ==
    LET ls == SplitLines(block)
        d == CHOOSE i \in DOMAIN ls : /\ ls[i] = DashDash \o boundary
                                      /\ \A j \in 1..(i - 1) : ls[j] # ls[i]
    IN  SubSeq(ls, d + 1, Len(ls) - 1)

\* The key of a header line: what precedes its first ": ".
KeyOfLine(line) ==
    LET seps == {i \in 1..(Len(line) - 1) : line[i] = 58 /\ line[i + 1] = 32}
    IN  SubSeq(line, 1, (CHOOSE i \in seps : \A j \in seps : i <= j) - 1)

EmittedKeys(block) ==
    LET ls == HeaderLinesOf(block) IN [i \in DOMAIN ls |-> KeyOfLine(ls[i])]

\* A key sequence with the immediate repetitions of a key removed.
RECURSIVE Collapse(_)
Collapse(ks) ==
    IF Len(ks) <= 1 THEN ks
    ELSE IF ks[1] = ks[2] THEN Collapse(Tail(ks))
    ELSE <<ks[1]>> \o Collapse(Tail(ks))

StrictlyIncreasing(ks) ==
    \A a \in 1..(Len(ks) - 1) : LexLess(ks[a], ks[a + 1])

\* C4 as stated: the keys named by the header block, each counted once,
\* are in strictly increasing order and are exactly the keys of the map,
\* none omitted, whatever the number of values a key stores.
KeysAllListed ==
    \A i \in DOMAIN trace :
        (trace[i].op \in PartOps /\ trace[i].ret # "closed")
        => LET ks == Collapse(EmittedKeys(trace[i].blocks[1]))
           IN  /\ StrictlyIncreasing(ks)
               /\ Range(ks) = DOMAIN trace[i].hdr

\* C4 as amended: the header block names, in strictly increasing order,
\* exactly the keys that store at least one value, each on as many
\* consecutive lines as it stores values; a key with no value has no line.
KeysWithValuesListed ==
    \A i \in DOMAIN trace :
        (trace[i].op \in PartOps /\ trace[i].ret # "closed")
        => LET all == EmittedKeys(trace[i].blocks[1])
               ks == Collapse(all)
               h == trace[i].hdr
           IN  /\ StrictlyIncreasing(ks)
               /\ Range(ks) = {k \in DOMAIN h : h[k] # <<>>}
               /\ \A k \in DOMAIN h :
                      Cardinality({a \in DOMAIN all : all[a] = k}) = Len(h[k])

\* A part whose map stores two values under one key and one whose map
\* stores none under a key have been written.
KeysWithValuesListedWitness ==
    /\ \E i \in DOMAIN trace :
          /\ trace[i].op = "CreatePart" /\ trace[i].ret = "ok"
          /\ \E k \in DOMAIN trace[i].hdr : Len(trace[i].hdr[k]) = 2
          /\ Len(EmittedKeys(trace[i].blocks[1])) = 3
    /\ \E i \in DOMAIN trace :
          /\ trace[i].op = "CreatePart" /\ trace[i].ret = "ok"
          /\ \E k \in DOMAIN trace[i].hdr : trace[i].hdr[k] = <<>>
          /\ Len(EmittedKeys(trace[i].blocks[1])) = 1

\* C6: a part call whose write of the delimiter-and-header block failed
\* returns the sink's error.
HeaderFailureReturned ==
    \A i \in DOMAIN trace :
        (/\ trace[i].op \in PartOps
         /\ trace[i].blocks # <<>>
         /\ ~trace[i].oks[1])
        => trace[i].ret = "err"

\* C7: WriteField returns success only if the write of the header block and
\* the write of the value both succeeded; on a closed writer it returns the
\* closed error and writes nothing; a failed body write is returned.
WriteFieldOkOnlyIfBoth ==
    \A i \in DOMAIN trace :
        trace[i].op = "WriteField"
        => /\ trace[i].ret = "ok" => trace[i].oks = <<TRUE, TRUE>>
           /\ (\E k \in 1..(i - 1) : trace[k].op = "Close")
                 => (trace[i].ret = "closed" /\ trace[i].end = trace[i].at)
           /\ (Len(trace[i].oks) = 2 /\ ~trace[i].oks[2]) => trace[i].ret = "err"

\* The characters ()<>@,;:"/[]?= of the claim.
SpecialChars == {40, 41, 60, 62, 64, 44, 59, 58, 34, 47, 91, 93, 63, 61}

\* C8: FormDataContentType returns "multipart/form-data; boundary=" followed
\* by the boundary in double quotes if the boundary holds one of the
\* characters ()<>@,;:"/[]?= and by the bare boundary if it holds none.
QuotedIffSpecial ==
    fout # <<>>
    => LET special == \E i \in DOMAIN boundary : boundary[i] \in SpecialChars IN
       /\ special => fout[1] = ContentTypePrefix \o <<34>> \o boundary \o <<34>>
       /\ ~special => fout[1] = ContentTypePrefix \o boundary

\* The boundary a= has been rendered, in quotes.
QuotedIffSpecialWitness ==
    /\ boundary = <<97, 61>>
    /\ fout = << ContentTypePrefix \o <<34, 97, 61, 34>> >>

\* The escaping the claims state: a backslash becomes two backslashes, a
\* double quote becomes a backslash and the double quote.
StatedEscape(s) ==
    Concat([i \in DOMAIN s |->
        IF s[i] = 92 THEN <<92, 92>>
        ELSE IF s[i] = 34 THEN <<92, 34>>
        ELSE <<s[i]>>])

\* C9: escapeQuotes doubles every backslash, puts one backslash before
\* every double quote and leaves every other character alone.
EscapeAsStated == fout # <<>> => fout[1] = StatedEscape(fin[1])

\* C10: the header block of CreateFormFile is the two lines
\* Content-Disposition: form-data; name="<escaped fieldname>";
\* filename="<escaped filename>" and Content-Type: application/octet-stream,
\* in this order, followed by the blank line.
FormFileTwoLines ==
    \A i \in DOMAIN trace :
        (trace[i].op = "CreateFormFile" /\ trace[i].ret # "closed")
        => LET b == trace[i].blocks[1] IN
           /\ HeaderLinesOf(b) =
                << ContentDisposition \o ColonSpace \o FormDataName
                       \o StatedEscape(trace[i].args[1]) \o FilenameSep
                       \o StatedEscape(trace[i].args[2]) \o DQuote,
                   ContentType \o ColonSpace \o OctetStream >>
           /\ SubSeq(b, Len(b) - 3, Len(b)) = CRLF \o CRLF

\* C11: every Boundary call, from the first one after construction to the
\* last, after calls that succeeded or failed, returns one and the same
\* token, and every part delimiter and terminal delimiter handed to the
\* sink is built from that token.
BoundaryFixed ==
    \A i \in DOMAIN trace :
        trace[i].op = "Boundary"
        => LET b == trace[i].out IN
           /\ b = boundary
           /\ \A j \in DOMAIN trace :
                /\ trace[j].op = "Boundary" => trace[j].out = b
                /\ (trace[j].op \in PartOps /\ trace[j].blocks # <<>>)
                       => \/ IsPrefix(CRLF \o DashDash \o b \o CRLF, trace[j].blocks[1])
                          \/ IsPrefix(DashDash \o b \o CRLF, trace[j].blocks[1])
                /\ (trace[j].op = "Close" /\ trace[j].blocks # <<>>)
                       => trace[j].blocks[1] = CRLF \o DashDash \o b \o DashDash \o CRLF

\* Boundary right after construction, a Close whose write failed, and
\* Boundary again.
BoundaryFixedWitness ==
    /\ Len(trace) = 3
    /\ trace[1].op = "Boundary"
    /\ trace[2].op = "Close" /\ trace[2].ret = "err"
    /\ trace[3].op = "Boundary" /\ trace[3].out = trace[1].out
    /\ Len(trace[1].out) > 2

\* C12: every part call on an open writer, the first one included, hands
\* the sink a block that starts with "\r\n--<boundary>\r\n": the branch
\* without the leading CRLF is never taken.
AlwaysLeadingCRLF ==
    \A i \in DOMAIN trace :
        (trace[i].op \in PartOps /\ trace[i].ret # "closed")
        => IsPrefix(CRLF \o DashDash \o boundary \o CRLF, trace[i].blocks[1])

\* The first call on a fresh writer was a part call, and the sink starts
\* with the CRLF of its delimiter.
AlwaysLeadingCRLFWitness ==
    /\ trace # <<>>
    /\ trace[1].op \in PartOps /\ trace[1].ret = "ok" /\ trace[1].oks[1]
    /\ IsPrefix(CRLF \o DashDash, w)

EndsWithBlankLine(block) ==
    Len(block) >= 4 /\ SubSeq(block, Len(block) - 3, Len(block)) = <<13, 10, 13, 10>>

LinesOfKey(ls, k) == {a \in DOMAIN ls : KeyOfLine(ls[a]) = k}

\* C14: in a part's block the values of a key stand on consecutive lines
\* "<Key>: <Value>" in their stored order, every line belongs to a key of
\* the map, and the block ends with exactly one blank line; with an empty
\* map the block is the delimiter line followed by the blank line.
ValuesInStoredOrder ==
    \A i \in DOMAIN trace :
        (trace[i].op \in PartOps /\ trace[i].ret # "closed")
        => LET b == trace[i].blocks[1]
               h == trace[i].hdr
               ls == HeaderLinesOf(b)
           IN  /\ EndsWithBlankLine(b)
               /\ \A a \in DOMAIN ls : ls[a] # <<>> /\ KeyOfLine(ls[a]) \in DOMAIN h
               /\ \A k \in DOMAIN h :
                    LET at == LinesOfKey(ls, k) IN
                    /\ Cardinality(at) = Len(h[k])
                    /\ \A a, c \in at : \A m \in a..c : m \in at
                    /\ \A a \in at :
                         ls[a] = k \o ColonSpace
                                   \o h[k][Cardinality({c \in at : c <= a})]
               /\ h = <<>> => \/ b = CRLF \o DashDash \o boundary \o CRLF \o CRLF
                              \/ b = DashDash \o boundary \o CRLF \o CRLF

\* A part with two values under one key and a part with an empty map.
ValuesInStoredOrderWitness ==
    /\ \E i \in DOMAIN trace :
          /\ trace[i].op = "CreatePart" /\ trace[i].ret = "ok"
          /\ \E k \in DOMAIN trace[i].hdr :
                /\ Len(trace[i].hdr[k]) = 2
                /\ trace[i].hdr[k][1] # trace[i].hdr[k][2]
                /\ Cardinality(LinesOfKey(HeaderLinesOf(trace[i].blocks[1]), k)) = 2
    /\ \E i \in DOMAIN trace :
          /\ trace[i].op = "CreatePart" /\ trace[i].ret = "ok"
          /\ trace[i].hdr = <<>>
          /\ HeaderLinesOf(trace[i].blocks[1]) = <<>>

\* The number of values a header map stores.
RECURSIVE ValueCount(_, _)
ValueCount(h, ks) ==
    IF ks = {} THEN 0
    ELSE LET k == CHOOSE x \in ks : TRUE IN Len(h[k]) + ValueCount(h, ks \ {k})

\* C15: CreatePart, CreateFormFile and CreateFormField on an open writer
\* hand the sink one block, which holds the delimiter, every header line
\* and the blank line; the first Close hands it one block; a call on a
\* closed writer hands it none; WriteField on an open writer hands it two,
\* the header block and then the value.
OneWritePerCall ==
    \A i \in DOMAIN trace :
        LET e == trace[i]
            closed == \E k \in 1..(i - 1) : trace[k].op = "Close"
        IN  /\ Len(e.oks) = Len(e.blocks)
            /\ (e.op \in PartOps \cup {"Close"} /\ closed)
                  => (e.blocks = <<>> /\ e.ret = "closed")
            /\ (e.op \in PartOps /\ ~closed)
                  => /\ Len(e.blocks) = IF e.op = "WriteField" THEN 2 ELSE 1
                     /\ EndsWithBlankLine(e.blocks[1])
                     /\ \/ IsPrefix(CRLF \o DashDash \o boundary \o CRLF, e.blocks[1])
                        \/ IsPrefix(DashDash \o boundary \o CRLF, e.blocks[1])
                     /\ Len(HeaderLinesOf(e.blocks[1])) = ValueCount(e.hdr, DOMAIN e.hdr)
                     /\ e.op = "WriteField" => e.blocks[2] = e.args[2]
            /\ (e.op = "Close" /\ ~closed) => Len(e.blocks) = 1

\* A WriteField and a Close on the open writer, then a rejected part call.
OneWritePerCallWitness ==
    /\ Len(trace) = 3
    /\ trace[1].op = "WriteField" /\ Len(trace[1].blocks) = 2
    /\ trace[2].op = "Close" /\ Len(trace[2].blocks) = 1
    /\ trace[3].op = "CreateFormFile" /\ trace[3].blocks = <<>>

\* C16: the writer is closed exactly when a Close call has been made, and a
\* part call or Close is rejected exactly when a Close call came before it:
\* no other call, successful or failed, closes or reopens the writer.
OnlyCloseCloses ==
    /\ lastpart <=> \E i \in DOMAIN trace : trace[i].op = "Close"
    /\ \A i \in DOMAIN trace :
         trace[i].op \in PartOps \cup {"Close"}
         => (trace[i].ret = "closed" <=> \E k \in 1..(i - 1) : trace[k].op = "Close")

\* A part, a body write that failed, and a further part that is accepted.
OnlyCloseClosesWitness ==
    /\ Len(trace) = 3
    /\ trace[1].op \in PartOps /\ trace[1].ret = "ok"
    /\ trace[2].op = "Write" /\ trace[2].ret = "err"
    /\ trace[3].op \in PartOps /\ trace[3].ret = "ok"
    /\ ~lastpart

\* C17: every boundary randomBoundary produces is a non-empty run of
\* lowercase hexadecimal digits followed by "xx"; it is ASCII and holds no
\* whitespace and none of ()<>@,;:"/[]?=, and FormDataContentType of the
\* writer built with it returns the unquoted form.
BoundaryIsHexThenXX ==
    boundary # <<>>
    => LET n == Len(boundary) IN
       /\ n >= 3
       /\ SubSeq(boundary, n - 1, n) = Suffix
       /\ \A i \in 1..(n - 2) : boundary[i] \in (48..57) \cup (97..102)
       /\ \A i \in 1..n : /\ boundary[i] < 128
                          /\ boundary[i] \notin {9, 10, 11, 12, 13, 32}
                          /\ boundary[i] \notin SpecialChars
       /\ fout # <<>> => fout[1] = ContentTypePrefix \o boundary

\* A boundary of digits and letters, from mixed words on a little-endian
\* target, with its content type computed.
BoundaryIsHexThenXXWitness ==
    /\ fout # <<>>
    /\ fin[2]
    /\ \E i \in DOMAIN boundary : boundary[i] \in 97..102
    /\ \E i \in DOMAIN boundary : boundary[i] \in 48..57
    /\ Len(boundary) < 58

\* The number of backslashes in s.
Backslashes(s) == Cardinality({i \in DOMAIN s : s[i] = 92})

\* C18: escapeQuotes applied to its own result gives a different string
\* whenever s holds a backslash or a double quote, the backslashes of the
\* first result being doubled; a string with neither comes back unchanged.
EscapeNotIdempotent ==
    /\ (fout # <<>> /\ \A i \in DOMAIN fin[1] : fin[1][i] \notin {92, 34})
          => fout[1] = fin[1]
    /\ (Len(fout) = 2 /\ \E i \in DOMAIN fin[1] : fin[1][i] \in {92, 34})
          => /\ fout[2] # fout[1]
             /\ Backslashes(fout[2]) >= 2 * Backslashes(fout[1])
             /\ Backslashes(fout[1]) > 0

\* na"me escaped twice.
EscapeNotIdempotentWitness ==
    /\ Len(fout) = 2
    /\ fin[1] = <<110, 97, 34, 109, 101>>
    /\ fout[2] # fout[1]

====
